---- MODULE Spec2Model ----
(***************************************************************************)
(* Model of the expense tracker.  Two Flask programs live in the           *)
(* repository:                                                             *)
(*   src/app.py           the authenticated variant (users, sessions,      *)
(*                        owner-scoped expenses, admin routes)             *)
(*   src/Mini-Project.py  the plain variant (one shared expenses           *)
(*                        collection, no users)                            *)
(* Strings are tuples of one-character strings so that strip(), float()    *)
(* and strptime() are computed, not assumed.  MongoDB collections are      *)
(* sequences of documents in insertion order; a document is a function     *)
(* from field names to values.                                             *)
(***************************************************************************)
EXTENDS Integers, Sequences, FiniteSets, TLC

(***************************************************************************)
(* Bounds of the model.                                                    *)
(***************************************************************************)
MaxExpenses == 2      \* expense documents ever inserted in one run
MaxUsers == 2         \* user documents ever inserted by register in one run
MaxClock == 1         \* ticks of the wall clock in one run

(***************************************************************************)
(* Strings.                                                                *)
(***************************************************************************)
Whitespace == {" ", "\t", "\n"}

Digits == <<"0", "1", "2", "3", "4", "5", "6", "7", "8", "9">>

IsDigit(c) == \E i \in 1..Len(Digits) : Digits[i] = c

DigitVal(c) == (CHOOSE i \in 1..Len(Digits) : Digits[i] = c) - 1

AllDigits(s) == \A i \in 1..Len(s) : IsDigit(s[i])

RECURSIVE DigitsVal(_)
DigitsVal(s) ==
    IF Len(s) = 0 THEN 0
    ELSE DigitsVal(SubSeq(s, 1, Len(s) - 1)) * Len(Digits) + DigitVal(s[Len(s)])

RECURSIVE NatToStr(_)
NatToStr(n) ==
    IF n < Len(Digits) THEN <<Digits[n + 1]>>
    ELSE NatToStr(n \div Len(Digits)) \o <<Digits[(n % Len(Digits)) + 1]>>

\* str.strip(): drop leading and trailing whitespace
RECURSIVE LStrip(_)
LStrip(s) ==
    IF Len(s) > 0 /\ s[1] \in Whitespace THEN LStrip(Tail(s)) ELSE s

RECURSIVE RStrip(_)
RStrip(s) ==
    IF Len(s) > 0 /\ s[Len(s)] \in Whitespace
    THEN RStrip(SubSeq(s, 1, Len(s) - 1)) ELSE s

Strip(s) == RStrip(LStrip(s))

\* position of the first occurrence of character c in s, 0 when there is none
IndexOf(s, c) ==
    IF \E i \in 1..Len(s) : s[i] = c
    THEN CHOOSE i \in 1..Len(s) : s[i] = c /\ \A j \in 1..(i - 1) : s[j] # c
    ELSE 0

Uncategorized == <<"U", "n", "c", "a", "t", "e", "g", "o", "r", "i", "z", "e", "d">>

(***************************************************************************)
(* Documents and request forms: functions with optional keys.              *)
(***************************************************************************)
\* dict.get(key, default)
Get(doc, key, default) == IF key \in DOMAIN doc THEN doc[key] ELSE default

\* a field of a submitted form is <<>> when absent and <<raw>> when present
MkForm(fields) ==
    [k \in {f \in DOMAIN fields : Len(fields[f]) = 1} |-> fields[k][1]]

(***************************************************************************)
(* float(): the amount parser.  A float is [cls, num, exp]: cls is "fin",  *)
(* "nan", "inf" or "-inf"; a finite value is num / 10^exp with exp least.  *)
(* The input alphabet has no exponent marker and no underscore.            *)
(***************************************************************************)
UpperLetters == <<"N", "A", "I", "F", "T", "Y">>

LowerLetters == <<"n", "a", "i", "f", "t", "y">>

LowerChar(c) ==
    IF \E i \in 1..Len(UpperLetters) : UpperLetters[i] = c
    THEN LowerLetters[CHOOSE i \in 1..Len(UpperLetters) : UpperLetters[i] = c]
    ELSE c

Lower(s) == [i \in 1..Len(s) |-> LowerChar(s[i])]

RECURSIVE Normalise(_, _)
Normalise(num, exp) ==
    IF exp > 0 /\ num % Len(Digits) = 0
    THEN Normalise(num \div Len(Digits), exp - 1)
    ELSE [cls |-> "fin", num |-> num, exp |-> exp]

NaN == [cls |-> "nan", num |-> 0, exp |-> 0]

Infinity(neg) == [cls |-> IF neg THEN "-inf" ELSE "inf", num |-> 0, exp |-> 0]

FloatOfInt(n) == [cls |-> "fin", num |-> n, exp |-> 0]

\* float(s): [ok |-> FALSE] stands for the ValueError
ParseFloat(s) ==
    LET t == Strip(s)
        signed == Len(t) > 0 /\ t[1] \in {"+", "-"}
        neg == signed /\ t[1] = "-"
        body == IF signed THEN Tail(t) ELSE t
        word == Lower(body)
        dot == IndexOf(body, ".")
        ip == IF dot = 0 THEN body ELSE SubSeq(body, 1, dot - 1)
        fp == IF dot = 0 THEN <<>> ELSE SubSeq(body, dot + 1, Len(body))
        mag == DigitsVal(ip \o fp)
    IN  IF word = <<"n", "a", "n">> THEN [ok |-> TRUE, v |-> NaN]
        ELSE IF word \in {<<"i", "n", "f">>, <<"i", "n", "f", "i", "n", "i", "t", "y">>}
        THEN [ok |-> TRUE, v |-> Infinity(neg)]
        ELSE IF AllDigits(ip) /\ AllDigits(fp) /\ Len(ip) + Len(fp) > 0
        THEN [ok |-> TRUE, v |-> Normalise(IF neg THEN 0 - mag ELSE mag, Len(fp))]
        ELSE [ok |-> FALSE, v |-> NaN]

RECURSIVE Pow10(_)
Pow10(k) == IF k = 0 THEN 1 ELSE Len(Digits) * Pow10(k - 1)

RECURSIVE ZeroPad(_, _)
ZeroPad(s, width) == IF Len(s) >= width THEN s ELSE ZeroPad(<<"0">> \o s, width)

\* str(x) of a float, as edit() uses it for the default of the amount field
FloatToStr(x) ==
    IF x.cls = "nan" THEN <<"n", "a", "n">>
    ELSE IF x.cls = "inf" THEN <<"i", "n", "f">>
    ELSE IF x.cls = "-inf" THEN <<"-", "i", "n", "f">>
    ELSE LET mag == IF x.num < 0 THEN 0 - x.num ELSE x.num
             sign == IF x.num < 0 THEN <<"-">> ELSE <<>>
             whole == NatToStr(mag \div Pow10(x.exp))
             frac == IF x.exp = 0 THEN <<"0">>
                     ELSE ZeroPad(NatToStr(mag % Pow10(x.exp)), x.exp)
         IN  sign \o whole \o <<".">> \o frac

\* x + y of two floats. Finite values are added exactly, in decimal: that is
\* the sum of two doubles whenever the operands and the result are binary
\* fractions of few digits, as all amounts of this model are (0, 5, 7, 2.5)
FloatAdd(x, y) ==
    IF x.cls = "nan" \/ y.cls = "nan" THEN NaN
    ELSE IF x.cls # "fin" /\ y.cls # "fin" THEN (IF x.cls = y.cls THEN x ELSE NaN)
    ELSE IF x.cls # "fin" THEN x
    ELSE IF y.cls # "fin" THEN y
    ELSE LET e == IF x.exp > y.exp THEN x.exp ELSE y.exp
         IN  Normalise(x.num * Pow10(e - x.exp) + y.num * Pow10(e - y.exp), e)

\* x == y of two floats: nan equals nothing, itself included
FloatEq(x, y) == x.cls # "nan" /\ y.cls # "nan" /\ x = y

\* x < y of two finite floats
FiniteLess(x, y) ==
    LET e == IF x.exp > y.exp THEN x.exp ELSE y.exp
    IN  x.num * Pow10(e - x.exp) < y.num * Pow10(e - y.exp)

\* sum(values): the built-in starts from the int 0 and adds from the left
RECURSIVE sum(_)
sum(values) ==
    IF Len(values) = 0 THEN FloatOfInt(0)
    ELSE FloatAdd(sum(SubSeq(values, 1, Len(values) - 1)), values[Len(values)])

(***************************************************************************)
(* datetime: [y, m, d, tod]; tod is the time of day, 0 at midnight.        *)
(***************************************************************************)
IsLeap(y) == (y % 4 = 0 /\ y % 100 # 0) \/ y % 400 = 0

DaysIn(y, m) ==
    IF m = 2 THEN (IF IsLeap(y) THEN 29 ELSE 28)
    ELSE IF m \in {4, 6, 9, 11} THEN 30 ELSE 31

\* datetime.strptime(s, "%Y-%m-%d"): [ok |-> FALSE] stands for the ValueError
ParseDate(s) ==
    LET ytok == SubSeq(s, 1, 4)
        rest == SubSeq(s, 6, Len(s))
        dash == IndexOf(rest, "-")
        mtok == SubSeq(rest, 1, dash - 1)
        dtok == SubSeq(rest, dash + 1, Len(rest))
        dnum == IF Len(dtok) = 2 /\ dtok[1] = " " THEN Tail(dtok) ELSE dtok
        y == DigitsVal(ytok)
        m == DigitsVal(mtok)
        d == DigitsVal(dnum)
        shaped == /\ Len(s) >= 8
                  /\ AllDigits(ytok)
                  /\ s[5] = "-"
                  /\ dash > 0
                  /\ Len(mtok) \in {1, 2} /\ AllDigits(mtok)
                  /\ Len(dtok) \in {1, 2} /\ Len(dnum) >= 1 /\ AllDigits(dnum)
    IN  IF shaped /\ y >= 1 /\ m \in 1..12 /\ d >= 1 /\ d <= DaysIn(y, m)
        THEN [ok |-> TRUE, v |-> [y |-> y, m |-> m, d |-> d, tod |-> 0]]
        ELSE [ok |-> FALSE, v |-> [y |-> 1, m |-> 1, d |-> 1, tod |-> 0]]

\* d.strftime("%Y-%m-%d")
DateStr(dt) ==
    ZeroPad(NatToStr(dt.y), 4) \o <<"-">> \o ZeroPad(NatToStr(dt.m), 2)
        \o <<"-">> \o ZeroPad(NatToStr(dt.d), 2)

\* datetime.utcnow() when the wall clock has ticked c times: each observed instant is
\* on a later day, at a later time of day, than the one before
UtcNow(c) == [y |-> 2024, m |-> 3, d |-> 1 + c, tod |-> 1 + c]

\* ordering of datetimes, as MongoDB's sort on the date field compares them
DateKey(dt) == <<dt.y, dt.m, dt.d, dt.tod>>

Before(a, b) ==
    \E i \in 1..4 :
        /\ DateKey(a)[i] < DateKey(b)[i]
        /\ \A j \in 1..(i - 1) : DateKey(a)[j] = DateKey(b)[j]

(***************************************************************************)
(* ObjectId: a well-formed id string is a tag letter followed by digits.   *)
(***************************************************************************)
OidStr(tag, n) == <<tag>> \o NatToStr(n)

\* ObjectId(id): FALSE stands for the InvalidId exception
ObjectIdOk(raw) ==
    Len(raw) >= 2 /\ raw[1] \in {"e", "u"} /\ AllDigits(Tail(raw))

(***************************************************************************)
(* MongoDB collection operations.                                          *)
(***************************************************************************)
\* the documents of coll whose field key equals val, in natural order
RECURSIVE Find(_, _, _)
Find(coll, key, val) ==
    IF Len(coll) = 0 THEN <<>>
    ELSE (IF key \in DOMAIN Head(coll) /\ Head(coll)[key] = val
          THEN <<Head(coll)>> ELSE <<>>) \o Find(Tail(coll), key, val)

\* index of the first document matching every (key, value) of query, or 0
FindIndex(coll, query) ==
    LET hit(i) == \A k \in DOMAIN query : k \in DOMAIN coll[i] /\ coll[i][k] = query[k]
    IN  IF \E i \in 1..Len(coll) : hit(i)
        THEN CHOOSE i \in 1..Len(coll) : hit(i) /\ \A j \in 1..(i - 1) : ~hit(j)
        ELSE 0

\* update_one(query, {"$set": fields}, upsert=True)
UpdateOne_upsert(coll, query, fields) ==
    LET i == FindIndex(coll, query)
        merged(doc) == [k \in (DOMAIN doc) \cup (DOMAIN fields) |->
                           IF k \in DOMAIN fields THEN fields[k] ELSE doc[k]]
    IN  IF i = 0 THEN Append(coll, merged(query))
        ELSE [coll EXCEPT ![i] = merged(coll[i])]

\* update_one(query, {"$set": fields})
UpdateOne(coll, query, fields) ==
    LET i == FindIndex(coll, query)
    IN  IF i = 0 THEN coll
        ELSE [coll EXCEPT ![i] =
                 [k \in (DOMAIN coll[i]) \cup (DOMAIN fields) |->
                     IF k \in DOMAIN fields THEN fields[k] ELSE coll[i][k]]]

\* delete_one(query)
DeleteOne(coll, query) ==
    LET i == FindIndex(coll, query)
    IN  IF i = 0 THEN coll
        ELSE SubSeq(coll, 1, i - 1) \o SubSeq(coll, i + 1, Len(coll))

\* the sequences that hold every element of the set once
Orderings(set) ==
    {s \in [1..Cardinality(set) -> set] : \A i, j \in DOMAIN s : i # j => s[i] # s[j]}

Range(coll) == {coll[i] : i \in 1..Len(coll)}

\* find(...).sort("date", -1): newest first; the server leaves the order of
\* documents with equal dates open, so every such order is a result
FindSorted(coll) ==
    {s \in Orderings(Range(coll)) :
        \A i, j \in DOMAIN s : i < j => ~Before(s[i]["date"], s[j]["date"])}

\* the sort order of the server on numbers: nan first, then -inf, finite, inf
SortRank(x) == CASE x.cls = "nan" -> 0 [] x.cls = "-inf" -> 1 [] x.cls = "fin" -> 2 [] x.cls = "inf" -> 3

SortLess(x, y) ==
    \/ SortRank(x) < SortRank(y)
    \/ x.cls = "fin" /\ y.cls = "fin" /\ FiniteLess(x, y)

\* the values of field key of the documents, in their order
RECURSIVE Pluck(_, _, _)
Pluck(coll, key, default) ==
    IF Len(coll) = 0 THEN <<>>
    ELSE <<Get(Head(coll), key, default)>> \o Pluck(Tail(coll), key, default)

\* {"$group": {"_id": "$category", "total": {"$sum": "$amount"}}}
pipeline_group(coll) ==
    {[_id |-> k, total |-> sum(Pluck(Find(coll, "category", k), "amount", FloatOfInt(0)))] :
        k \in {coll[i]["category"] : i \in 1..Len(coll)}}

\* {"$sort": {"total": -1}}: largest total first; the server leaves the order
\* of groups with equal totals open, so every such order is a result
pipeline_sort(groups) ==
    {s \in Orderings(groups) :
        \A i, j \in DOMAIN s : i < j => ~SortLess(s[i]["total"], s[j]["total"])}

\* list(expenses.aggregate(pipeline)) over the matched documents
aggregate(coll) == pipeline_sort(pipeline_group(coll))


(***************************************************************************)
(* State.                                                                  *)
(***************************************************************************)
VARIABLES
    users,      \* the users collection (src/app.py only)
    expenses,   \* the expenses collection
    session,    \* the Flask session of each client (src/app.py only)
    clock,      \* ticks of the wall clock
    made,       \* number of expense documents inserted so far
    born,       \* for each inserted expense, in order: the id of the caller who created it
    pending     \* per worker: the request it is handling and, once sent, the response

vars == <<users, expenses, session, clock, made, born, pending>>

Clients == {"c1"}

Workers == {"w1", "w2"}

Idle == [pc |-> "idle"]

Response(page, flash, rows) ==
    [page |-> page, flash |-> flash, rows |-> rows,
     total |-> FloatOfInt(0), categories |-> <<>>, totals |-> <<>>]

\* render_template("index.html", expenses, total, categories, totals)
Dashboard(all_expenses, category_agg) ==
    [page |-> "index.html", flash |-> "", rows |-> all_expenses,
     total |-> sum(Pluck(all_expenses, "amount", FloatOfInt(0))),
     categories |-> [i \in 1..Len(category_agg) |-> category_agg[i]["_id"]],
     totals |-> [i \in 1..Len(category_agg) |-> category_agg[i]["total"]]]

NoRows == <<>>

NoResponse == Response("", "", NoRows)

\* the form of a request that carries no field
NoForm == [k \in {} |-> <<>>]

NoSession == [k \in {} |-> <<>>]

NoId == <<>>

Request(op, method, id, form, client) ==
    [op |-> op, method |-> method, id |-> id, form |-> form, client |-> client]

\* worker w answers its request with response r
Reply(w, r) == pending' = [pending EXCEPT ![w].pc = "sent", ![w].resp = r]

Running(w, op) == pending[w].pc = "run" /\ pending[w].op = op

AllIdle == \A w \in Workers : pending[w].pc = "idle"

DatePart(dt) == <<dt.y, dt.m, dt.d>>

(***************************************************************************)
(* Inputs.                                                                 *)
(***************************************************************************)
GoodDate == <<"2", "0", "2", "4", "-", "0", "1", "-", "1", "0">>

BadDayDate == <<"2", "0", "2", "4", "-", "0", "2", "-", "3", "0">>

\* a field is <<>> when the form does not carry it, <<raw>> when it does
CategoryFields == {<<>>, << <<>> >>, << <<" ", " ">> >>, << <<" ", "F", " ">> >>}

AmountFields ==
    {<<>>, << <<>> >>, << <<"5", " ">> >>, << <<"x">> >>, << <<"n", "a", "n">> >>}

DateFields ==
    {<<>>, << GoodDate >>, << <<" ">> \o GoodDate >>, << BadDayDate >>, << <<"x">> >>}

BaseForm == [category |-> << <<"F">> >>, amount |-> << <<"5">> >>, date |-> << GoodDate >>]

\* the submitted forms of add: one field varies at a time, or nothing is sent
AddForms ==
    {MkForm([BaseForm EXCEPT !.category = c]) : c \in CategoryFields}
    \cup {MkForm([BaseForm EXCEPT !.amount = a]) : a \in AmountFields}
    \cup {MkForm([BaseForm EXCEPT !.date = d]) : d \in DateFields}
    \cup {MkForm([category |-> <<>>, amount |-> <<>>, date |-> <<>>])}

\* the submitted forms of edit
EditForms ==
    {MkForm([category |-> <<>>, amount |-> <<>>, date |-> <<>>]),
     MkForm([category |-> << <<"G">> >>, amount |-> << <<"7">> >>, date |-> << GoodDate >>]),
     MkForm([category |-> << <<"G">> >>, amount |-> << <<"x">> >>, date |-> << GoodDate >>]),
     MkForm([category |-> <<>>, amount |-> <<>>, date |-> << <<"x">> >>]),
     MkForm([category |-> <<>>, amount |-> <<>>, date |-> << <<" ">> \o GoodDate >>])}

\* the forms the authenticated variant is driven with: a complete one, one whose
\* amount is no number, and (add) an empty one
AuthAddForms ==
    {MkForm(BaseForm),
     MkForm([BaseForm EXCEPT !.amount = << <<"x">> >>]),
     MkForm([category |-> <<>>, amount |-> <<>>, date |-> <<>>])}

AuthEditForms ==
    {MkForm([category |-> << <<"G">> >>, amount |-> << <<"7">> >>, date |-> << GoodDate >>]),
     MkForm([category |-> << <<"G">> >>, amount |-> << <<"x">> >>, date |-> << GoodDate >>])}

\* ids a request may name: every id that is ever handed out, and a malformed one
RawIds == {OidStr("e", n) : n \in 1..MaxExpenses} \cup {<<"z", "z">>}

(***************************************************************************)
(* A worker takes a request, runs its handler to the end, and the response *)
(* is returned.  One request at a time: the handlers below are atomic.     *)
(***************************************************************************)
Receive(w, r) ==
    /\ AllIdle
    /\ (r.op = "add" /\ r.method = "POST") => made < MaxExpenses
    /\ pending' = [pending EXCEPT ![w] =
                      [pc |-> "run", op |-> r.op, method |-> r.method, id |-> r.id,
                       form |-> r.form, client |-> r.client,
                       sess |-> session[r.client], resp |-> NoResponse]]
    /\ UNCHANGED <<users, expenses, session, clock, made, born>>

Return(w) ==
    /\ pending[w].pc = "sent"
    /\ pending' = [pending EXCEPT ![w] = Idle]
    /\ UNCHANGED <<users, expenses, session, clock, made, born>>

\* the wall clock that datetime.utcnow() reads moves on
Tick ==
    /\ AllIdle
    /\ clock < MaxClock
    /\ clock' = clock + 1
    /\ UNCHANGED <<users, expenses, session, made, born, pending>>

(***************************************************************************)
(* src/Mini-Project.py: the plain variant.                                 *)
(***************************************************************************)
\* index(): every expense, newest first, their total and the total of each category
mp_index(w) ==
    /\ Running(w, "index")
    /\ \E all_expenses \in FindSorted(expenses), category_agg \in aggregate(expenses) :
          Reply(w, Dashboard(all_expenses, category_agg))
    /\ UNCHANGED <<users, expenses, session, clock, made, born>>

mp_add_category(form) == Strip(Get(form, "category", Uncategorized))

mp_add_amount(form) == ParseFloat(Strip(Get(form, "amount", <<"0">>)))

mp_add_date(form, now) ==
    LET parsed == ParseDate(Strip(Get(form, "date", <<>>)))
    IN  IF parsed.ok THEN parsed.v ELSE now

mp_add_doc(form, oid, now) ==
    [_id |-> oid,
     category |-> mp_add_category(form),
     amount |-> mp_add_amount(form).v,
     date |-> mp_add_date(form, now)]

mp_add(w) ==
    LET r == pending[w]
    IN  /\ Running(w, "add")
        /\ IF r.method = "POST"
           THEN IF ~mp_add_amount(r.form).ok
                THEN /\ Reply(w, Response("redirect:index", "Amount must be a number", NoRows))
                     /\ UNCHANGED <<users, expenses, session, clock, made, born>>
                ELSE /\ expenses' = Append(expenses,
                                       mp_add_doc(r.form, OidStr("e", made + 1), UtcNow(clock)))
                     /\ made' = made + 1
                     /\ born' = Append(born, <<>>)
                     /\ Reply(w, Response("redirect:index", "Expense added", NoRows))
                     /\ UNCHANGED <<users, session, clock>>
           ELSE /\ Reply(w, Response("add.html", "", NoRows))
                /\ UNCHANGED <<users, expenses, session, clock, made, born>>

mp_edit_category(form, exp) ==
    Strip(Get(form, "category", Get(exp, "category", Uncategorized)))

mp_edit_amount(form, exp) ==
    ParseFloat(Strip(Get(form, "amount", FloatToStr(Get(exp, "amount", FloatOfInt(0))))))

\* the fallback of add is used: the current time instead of the stored date
mp_edit_date_now(form, exp, now) ==
    LET parsed == ParseDate(Get(form, "date", <<>>))
    IN  IF parsed.ok THEN parsed.v ELSE now

mp_edit_date(form, exp, now) ==
    LET parsed == ParseDate(Get(form, "date", <<>>))
    IN  IF parsed.ok THEN parsed.v ELSE Get(exp, "date", now)

mp_edit_set(form, exp, now) ==
    [category |-> mp_edit_category(form, exp),
     amount |-> mp_edit_amount(form, exp).v,
     date |-> mp_edit_date(form, exp, now)]

mp_edit(w) ==
    LET r == pending[w]
        i == FindIndex(expenses, [_id |-> r.id])
    IN  /\ Running(w, "edit")
        /\ IF ~ObjectIdOk(r.id)
           THEN /\ Reply(w, Response("redirect:index", "Invalid id", NoRows))
                /\ UNCHANGED <<users, expenses, session, clock, made, born>>
           ELSE IF i = 0
           THEN /\ Reply(w, Response("redirect:index", "Expense not found", NoRows))
                /\ UNCHANGED <<users, expenses, session, clock, made, born>>
           ELSE IF r.method = "POST"
           THEN IF ~mp_edit_amount(r.form, expenses[i]).ok
                THEN /\ Reply(w, Response("redirect:edit", "Amount must be a number", NoRows))
                     /\ UNCHANGED <<users, expenses, session, clock, made, born>>
                ELSE /\ expenses' = UpdateOne(expenses, [_id |-> r.id],
                                        mp_edit_set(r.form, expenses[i], UtcNow(clock)))
                     /\ Reply(w, Response("redirect:index", "Expense updated", NoRows))
                     /\ UNCHANGED <<users, session, clock, made, born>>
           ELSE /\ Reply(w, Response("edit.html", "", <<expenses[i]>>))
                /\ UNCHANGED <<users, expenses, session, clock, made, born>>

mp_delete(w) ==
    LET r == pending[w]
    IN  /\ Running(w, "delete")
        /\ IF ~ObjectIdOk(r.id)
           THEN /\ Reply(w, Response("redirect:index", "Could not delete item", NoRows))
                /\ UNCHANGED <<users, expenses, session, clock, made, born>>
           ELSE /\ expenses' = DeleteOne(expenses, [_id |-> r.id])
                /\ Reply(w, Response("redirect:index", "Expense deleted", NoRows))
                /\ UNCHANGED <<users, session, clock, made, born>>

\* the requests a client of the plain variant sends
PlainRequests ==
    {Request("index", "GET", NoId, NoForm, "c1"), Request("add", "GET", NoId, NoForm, "c1")}
    \cup {Request("add", "POST", NoId, form, "c1") : form \in AddForms}
    \cup {Request("edit", "GET", id, NoForm, "c1") : id \in RawIds}
    \cup {Request("edit", "POST", id, form, "c1") : id \in RawIds, form \in EditForms}
    \cup {Request("delete", "POST", id, NoForm, "c1") : id \in RawIds}

InitPlain ==
    /\ users = <<>>
    /\ expenses = <<>>
    /\ session = [c \in Clients |-> NoSession]
    /\ clock = 0
    /\ made = 0
    /\ born = <<>>
    /\ pending = [w \in Workers |-> Idle]

NextPlain ==
    \/ \E r \in PlainRequests : Receive("w1", r)
    \/ mp_index("w1")
    \/ mp_add("w1")
    \/ mp_edit("w1")
    \/ mp_delete("w1")
    \/ Return("w1")
    \/ Tick

SpecPlain == InitPlain /\ [][NextPlain]_vars

(***************************************************************************)
(* src/Mini-Project.py, one worker per request: a handler is one step per  *)
(* call to the database, and the steps of two requests interleave.         *)
(* pending[w].read holds what the first call of the handler returned.      *)
(***************************************************************************)
AddsInFlight ==
    Cardinality({w \in Workers :
        pending[w].pc = "run" /\ pending[w].op = "add" /\ pending[w].method = "POST"})

ReceiveRace(w, r) ==
    /\ pending[w].pc = "idle"
    /\ (r.op = "add" /\ r.method = "POST") => made + AddsInFlight < MaxExpenses
    /\ pending' = [pending EXCEPT ![w] =
                      [pc |-> "run", op |-> r.op, method |-> r.method, id |-> r.id,
                       form |-> r.form, client |-> r.client,
                       sess |-> session[r.client], resp |-> NoResponse, read |-> NoRows]]
    /\ UNCHANGED <<users, expenses, session, clock, made, born>>

\* edit() up to and including expenses.find_one
mp_edit_find(w) ==
    LET r == pending[w]
        i == FindIndex(expenses, [_id |-> r.id])
    IN  /\ Running(w, "edit")
        /\ IF ~ObjectIdOk(r.id)
           THEN Reply(w, Response("redirect:index", "Invalid id", NoRows))
           ELSE IF i = 0
           THEN Reply(w, Response("redirect:index", "Expense not found", NoRows))
           ELSE IF r.method = "POST"
           THEN pending' = [pending EXCEPT ![w].pc = "update", ![w].read = expenses[i]]
           ELSE Reply(w, Response("edit.html", "", <<expenses[i]>>))
        /\ UNCHANGED <<users, expenses, session, clock, made, born>>

\* edit() from the reading of the form to expenses.update_one and the redirect
mp_edit_update(w) ==
    LET r == pending[w]
    IN  /\ r.pc = "update"
        /\ IF ~mp_edit_amount(r.form, r.read).ok
           THEN /\ Reply(w, Response("redirect:edit", "Amount must be a number", NoRows))
                /\ UNCHANGED <<users, expenses, session, clock, made, born>>
           ELSE /\ expenses' = UpdateOne(expenses, [_id |-> r.id],
                                   mp_edit_set(r.form, r.read, UtcNow(clock)))
                /\ Reply(w, Response("redirect:index", "Expense updated", NoRows))
                /\ UNCHANGED <<users, session, clock, made, born>>

\* index() up to and including expenses.find().sort
mp_index_find(w) ==
    /\ Running(w, "index")
    /\ \E all_expenses \in FindSorted(expenses) :
          pending' = [pending EXCEPT ![w].pc = "aggregate", ![w].read = all_expenses]
    /\ UNCHANGED <<users, expenses, session, clock, made, born>>

\* index() from the sum over what find returned to expenses.aggregate and the page
mp_index_aggregate(w) ==
    /\ pending[w].pc = "aggregate"
    /\ \E category_agg \in aggregate(expenses) :
          Reply(w, Dashboard(pending[w].read, category_agg))
    /\ UNCHANGED <<users, expenses, session, clock, made, born>>

\* the contested expense: the first one that is added
RaceId == OidStr("e", 1)

\* an edit that sends a category and a date that is none, and one that sends an amount
RaceEditForms ==
    {MkForm([category |-> << <<"G">> >>, amount |-> <<>>, date |-> << <<"x">> >>]),
     MkForm([category |-> <<>>, amount |-> << <<"7">> >>, date |-> <<>>])}

RaceRequests ==
    {Request("index", "GET", NoId, NoForm, "c1"),
     Request("add", "POST", NoId, MkForm(BaseForm), "c1"),
     Request("delete", "POST", RaceId, NoForm, "c1")}
    \cup {Request("edit", "POST", RaceId, form, "c1") : form \in RaceEditForms}

NextRace ==
    \E w \in Workers :
        \/ \E r \in RaceRequests : ReceiveRace(w, r)
        \/ mp_index_find(w)
        \/ mp_index_aggregate(w)
        \/ mp_add(w)
        \/ mp_edit_find(w)
        \/ mp_edit_update(w)
        \/ mp_delete(w)
        \/ Return(w)

SpecRace == InitPlain /\ [][NextRace]_vars

(***************************************************************************)
(* src/app.py: the authenticated variant.                                  *)
(***************************************************************************)
\* generate_password_hash(password): a salted one-way hash
PasswordHash(salt, password) == [salt |-> salt, digest |-> <<"H", salt>> \o password]

\* check_password_hash(hash, password)
CheckPasswordHash(hash, password) == hash = PasswordHash(hash.salt, password)

Salts == {"s1"}

\* the account an administrator holds; no route of the program creates one
SeedUsers ==
    <<[_id |-> OidStr("u", 0), username |-> <<"r", "o", "o", "t">>,
       password |-> PasswordHash("s0", <<"r">>), role |-> "admin"]>>

\* the guard lets the form page of add through without a session
LoginDenied_posts_only(r) ==
    "user_id" \notin DOMAIN r.sess /\ ~(r.op = "add" /\ r.method = "GET")

\* login_required: the request is turned away when its session holds no user_id
LoginDenied(r) == "user_id" \notin DOMAIN r.sess

\* the admin routes carry the login guard instead of the admin guard
AdminDenied_login_only(r) == "user_id" \notin DOMAIN r.sess

\* admin_required: the request is turned away unless its session role is admin
AdminDenied(r) == Get(r.sess, "role", "") # "admin"

LoginRequiredReply(w) == Reply(w, Response("redirect:login", "Login required", NoRows))

AdminRequiredReply(w) == Reply(w, Response("redirect:index", "Admin access only", NoRows))

\* an exception no handler catches: the server answers 500 and nothing is written
ServerError(w) == Reply(w, Response("500", "", NoRows))

home(w) ==
    /\ Running(w, "home")
    /\ IF "user_id" \in DOMAIN pending[w].sess
       THEN Reply(w, Response("redirect:login", "", NoRows))
       ELSE ServerError(w)
    /\ UNCHANGED <<users, expenses, session, clock, made, born>>

\* the duplicate check forgets to trim the submitted name
username_taken_untrimmed(form) == FindIndex(users, [username |-> form["username"]]) # 0

\* users.find_one({"username": username}) finds a user
username_taken(form) == FindIndex(users, [username |-> Strip(form["username"])]) # 0

\* every new account is made an admin
register_doc_admin(username, hashed) ==
    [_id |-> OidStr("u", Len(users)), username |-> username,
     password |-> hashed, role |-> "admin"]

register_doc(username, hashed) ==
    [_id |-> OidStr("u", Len(users)), username |-> username,
     password |-> hashed, role |-> "user"]

register(w) ==
    LET r == pending[w]
    IN  /\ Running(w, "register")
        /\ IF r.method # "POST"
           THEN /\ Reply(w, Response("register.html", "", NoRows))
                /\ UNCHANGED <<users, expenses, session, clock, made, born>>
           ELSE IF ~({"username", "password"} \subseteq DOMAIN r.form)
           THEN /\ ServerError(w)
                /\ UNCHANGED <<users, expenses, session, clock, made, born>>
           ELSE IF username_taken(r.form)
           THEN /\ Reply(w, Response("redirect:register", "Username already exists", NoRows))
                /\ UNCHANGED <<users, expenses, session, clock, made, born>>
           ELSE /\ \E salt \in Salts :
                      users' = Append(users,
                                  register_doc(Strip(r.form["username"]),
                                      PasswordHash(salt, Strip(r.form["password"]))))
                /\ Reply(w, Response("redirect:login", "Account created! Please log in.", NoRows))
                /\ UNCHANGED <<expenses, session, clock, made, born>>

\* the session entries a successful login writes
login_session(user) ==
    [user_id |-> user["_id"], username |-> user["username"],
     role |-> Get(user, "role", "user")]

\* the password is not checked
login_ok_any_password(form) ==
    FindIndex(users, [username |-> Strip(form["username"])]) # 0

login_ok(form) ==
    LET i == FindIndex(users, [username |-> Strip(form["username"])])
    IN  i # 0 /\ CheckPasswordHash(users[i]["password"], Strip(form["password"]))

login(w) ==
    LET r == pending[w]
    IN  /\ Running(w, "login")
        /\ IF r.method # "POST"
           THEN /\ Reply(w, Response("login.html", "", NoRows))
                /\ UNCHANGED <<users, expenses, session, clock, made, born>>
           ELSE IF ~({"username", "password"} \subseteq DOMAIN r.form)
           THEN /\ ServerError(w)
                /\ UNCHANGED <<users, expenses, session, clock, made, born>>
           ELSE IF login_ok(r.form)
           THEN LET user == users[FindIndex(users, [username |-> Strip(r.form["username"])])]
                    new == login_session(user)
                IN  /\ session' = [session EXCEPT ![r.client] =
                                      [k \in (DOMAIN r.sess) \cup (DOMAIN new) |->
                                          IF k \in DOMAIN new THEN new[k] ELSE r.sess[k]]]
                    /\ Reply(w, Response("redirect:index", "Logged in successfully", NoRows))
                    /\ UNCHANGED <<users, expenses, clock, made, born>>
           ELSE /\ Reply(w, Response("login.html", "Invalid username or password", NoRows))
                /\ UNCHANGED <<users, expenses, session, clock, made, born>>

logout(w) ==
    /\ Running(w, "logout")
    /\ session' = [session EXCEPT ![pending[w].client] = NoSession]
    /\ Reply(w, Response("redirect:login", "Logged out", NoRows))
    /\ UNCHANGED <<users, expenses, clock, made, born>>

\* expenses.find({"user_id": session["user_id"]})
index_find(coll, sess) == Find(coll, "user_id", sess["user_id"])

\* a pipeline with no $match stage
index_match_all(coll, sess) == coll

\* {"$match": {"user_id": session["user_id"]}}
index_match(coll, sess) == Find(coll, "user_id", sess["user_id"])

\* index(): the caller's expenses, newest first, their total and the total of
\* each of their categories
index(w) ==
    LET r == pending[w]
    IN  /\ Running(w, "index")
        /\ IF LoginDenied(r)
           THEN LoginRequiredReply(w)
           ELSE \E all_expenses \in FindSorted(index_find(expenses, r.sess)),
                   category_agg \in aggregate(index_match(expenses, r.sess)) :
                     Reply(w, Dashboard(all_expenses, category_agg))
        /\ UNCHANGED <<users, expenses, session, clock, made, born>>

\* the category is stored as it was typed
add_category_untrimmed(form) == Get(form, "category", Uncategorized)

add_category(form) == Strip(Get(form, "category", Uncategorized))

add_amount(form) == ParseFloat(Strip(Get(form, "amount", <<"0">>)))

add_date(form, now) ==
    LET parsed == ParseDate(Strip(Get(form, "date", <<>>)))
    IN  IF parsed.ok THEN parsed.v ELSE now

\* the owner is taken from the wrong session key
add_doc_wrong_key(form, oid, now, sess) ==
    [_id |-> oid,
     user_id |-> sess["username"],
     category |-> add_category(form),
     amount |-> add_amount(form).v,
     date |-> add_date(form, now)]

add_doc(form, oid, now, sess) ==
    [_id |-> oid,
     user_id |-> sess["user_id"],
     category |-> add_category(form),
     amount |-> add_amount(form).v,
     date |-> add_date(form, now)]

add(w) ==
    LET r == pending[w]
    IN  /\ Running(w, "add")
        /\ IF LoginDenied(r)
           THEN /\ LoginRequiredReply(w)
                /\ UNCHANGED <<users, expenses, session, clock, made, born>>
           ELSE IF r.method # "POST"
           THEN /\ Reply(w, Response("add.html", "", NoRows))
                /\ UNCHANGED <<users, expenses, session, clock, made, born>>
           ELSE IF ~add_amount(r.form).ok
           THEN /\ Reply(w, Response("redirect:index", "Amount must be a number", NoRows))
                /\ UNCHANGED <<users, expenses, session, clock, made, born>>
           ELSE /\ expenses' = Append(expenses,
                                  add_doc(r.form, OidStr("e", made + 1), UtcNow(clock), r.sess))
                /\ made' = made + 1
                /\ born' = Append(born, r.sess["user_id"])
                /\ Reply(w, Response("redirect:index", "Expense added", NoRows))
                /\ UNCHANGED <<users, session, clock>>

\* the query of edit's find_one
edit_query(id, sess) == [_id |-> id, user_id |-> sess["user_id"]]

edit_category(form, exp) ==
    Strip(Get(form, "category", Get(exp, "category", Uncategorized)))

edit_amount(form, exp) ==
    ParseFloat(Strip(Get(form, "amount", FloatToStr(Get(exp, "amount", FloatOfInt(0))))))

edit_date(form, exp, now) ==
    LET parsed == ParseDate(Get(form, "date", <<>>))
    IN  IF parsed.ok THEN parsed.v ELSE Get(exp, "date", now)

edit_set(form, exp, now) ==
    [category |-> edit_category(form, exp),
     amount |-> edit_amount(form, exp).v,
     date |-> edit_date(form, exp, now)]

edit(w) ==
    LET r == pending[w]
        i == FindIndex(expenses, edit_query(r.id, r.sess))
    IN  /\ Running(w, "edit")
        /\ IF LoginDenied(r)
           THEN /\ LoginRequiredReply(w)
                /\ UNCHANGED <<users, expenses, session, clock, made, born>>
           ELSE IF ~ObjectIdOk(r.id)
           THEN /\ Reply(w, Response("redirect:index", "Invalid id", NoRows))
                /\ UNCHANGED <<users, expenses, session, clock, made, born>>
           ELSE IF i = 0
           THEN /\ Reply(w, Response("redirect:index", "Expense not found", NoRows))
                /\ UNCHANGED <<users, expenses, session, clock, made, born>>
           ELSE IF r.method # "POST"
           THEN /\ Reply(w, Response("edit.html", "", <<expenses[i]>>))
                /\ UNCHANGED <<users, expenses, session, clock, made, born>>
           ELSE IF ~edit_amount(r.form, expenses[i]).ok
           THEN /\ Reply(w, Response("redirect:edit", "Amount must be a number", NoRows))
                /\ UNCHANGED <<users, expenses, session, clock, made, born>>
           ELSE /\ expenses' = UpdateOne(expenses, [_id |-> r.id],
                                   edit_set(r.form, expenses[i], UtcNow(clock)))
                /\ Reply(w, Response("redirect:index", "Expense updated", NoRows))
                /\ UNCHANGED <<users, session, clock, made, born>>

\* an admin's delete names the expense by its id alone
delete_query_admin_any(id, sess) ==
    IF Get(sess, "role", "") = "admin" THEN [_id |-> id]
    ELSE [_id |-> id, user_id |-> sess["user_id"]]

\* the query of delete's delete_one
delete_query(id, sess) == [_id |-> id, user_id |-> sess["user_id"]]

delete(w) ==
    LET r == pending[w]
    IN  /\ Running(w, "delete")
        /\ IF LoginDenied(r)
           THEN /\ LoginRequiredReply(w)
                /\ UNCHANGED <<users, expenses, session, clock, made, born>>
           ELSE IF ~ObjectIdOk(r.id)
           THEN /\ Reply(w, Response("redirect:index", "Could not delete item", NoRows))
                /\ UNCHANGED <<users, expenses, session, clock, made, born>>
           ELSE /\ expenses' = DeleteOne(expenses, delete_query(r.id, r.sess))
                /\ Reply(w, Response("redirect:index", "Expense deleted", NoRows))
                /\ UNCHANGED <<users, session, clock, made, born>>

admin_expenses(w) ==
    /\ Running(w, "admin_expenses")
    /\ IF AdminDenied(pending[w])
       THEN AdminRequiredReply(w)
       ELSE Reply(w, Response("admin_expenses.html", "", expenses))
    /\ UNCHANGED <<users, expenses, session, clock, made, born>>

admin_users(w) ==
    /\ Running(w, "admin_users")
    /\ IF AdminDenied(pending[w])
       THEN AdminRequiredReply(w)
       ELSE Reply(w, Response("admin_users.html", "", users))
    /\ UNCHANGED <<users, expenses, session, clock, made, born>>

\* the rows admin_export writes to the sheet: dates become YYYY-MM-DD text
export_rows(data) ==
    [i \in 1..Len(data) |->
        [k \in DOMAIN data[i] |->
            IF k = "date" THEN DateStr(data[i][k]) ELSE data[i][k]]]

\* admin_export(type): the request's id field carries the <type> of the URL
admin_export(w) ==
    LET r == pending[w]
    IN  /\ Running(w, "admin_export")
        /\ IF AdminDenied(r)
           THEN AdminRequiredReply(w)
           ELSE IF r.id = <<"e", "x", "p", "e", "n", "s", "e", "s">>
           THEN Reply(w, Response("expenses.xlsx", "", export_rows(expenses)))
           ELSE IF r.id = <<"u", "s", "e", "r", "s">>
           THEN Reply(w, Response("users.xlsx", "", export_rows(users)))
           ELSE Reply(w, Response("redirect:admin_expenses", "Invalid export type", NoRows))
        /\ UNCHANGED <<users, expenses, session, clock, made, born>>

\* register and login forms
Cred(username, password) ==
    MkForm([username |-> username, password |-> password])

RegisterForms ==
    {Cred(u, << <<"p">> >>) : u \in {<<>>, << <<"a">> >>, << <<" ", "a", " ">> >>, << <<"A">> >>}}
    \cup {Cred(<< <<"r", "o", "o", "t">> >>, << <<"p">> >>)}

LoginForms ==
    {Cred(<< <<"a">> >>, << <<"p">> >>),
     Cred(<< <<"A", " ">> >>, << <<" ", "p">> >>),
     Cred(<< <<"a">> >>, << <<"q">> >>),
     Cred(<< <<"b">> >>, << <<"p">> >>),
     Cred(<< <<"r", "o", "o", "t">> >>, << <<"r">> >>),
     Cred(<< <<"a">> >>, <<>>)}

ExportTypes ==
    {<<"e", "x", "p", "e", "n", "s", "e", "s">>, <<"u", "s", "e", "r", "s">>, <<"x">>}

\* the requests a client of the authenticated variant sends
AuthRequests(c) ==
    {Request(op, "GET", NoId, NoForm, c) :
        op \in {"home", "register", "login", "logout", "index", "add",
                "admin_expenses", "admin_users"}}
    \cup {Request("register", "POST", NoId, form, c) : form \in RegisterForms}
    \cup {Request("login", "POST", NoId, form, c) : form \in LoginForms}
    \cup {Request("add", "POST", NoId, form, c) : form \in AuthAddForms}
    \cup {Request("edit", "GET", id, NoForm, c) : id \in RawIds}
    \cup {Request("edit", "POST", id, form, c) : id \in RawIds, form \in AuthEditForms}
    \cup {Request("delete", "POST", id, NoForm, c) : id \in RawIds}
    \cup {Request("admin_export", "GET", type, NoForm, c) : type \in ExportTypes}

\* register inserts at most MaxUsers users in one run
ReceiveAuth(w, r) ==
    /\ (r.op = "register" /\ r.method = "POST") => Len(users) < Len(SeedUsers) + MaxUsers
    /\ Receive(w, r)

InitAuth ==
    /\ users = SeedUsers
    /\ expenses = <<>>
    /\ session = [c \in Clients |-> NoSession]
    /\ clock = 0
    /\ made = 0
    /\ born = <<>>
    /\ pending = [w \in Workers |-> Idle]

NextAuth ==
    \/ \E c \in Clients : \E r \in AuthRequests(c) : ReceiveAuth("w1", r)
    \/ home("w1")
    \/ register("w1")
    \/ login("w1")
    \/ logout("w1")
    \/ index("w1")
    \/ add("w1")
    \/ edit("w1")
    \/ delete("w1")
    \/ admin_expenses("w1")
    \/ admin_users("w1")
    \/ admin_export("w1")
    \/ Return("w1")

SpecAuth == InitAuth /\ [][NextAuth]_vars

(***************************************************************************)
(* src/app.py under concurrent requests: each worker runs register as two  *)
(* store operations, find_one and then insert_one, and the workers         *)
(* interleave between them.                                                *)
(***************************************************************************)
\* register POSTs that have been received and have not inserted yet
RegistersInFlight ==
    Cardinality({w \in Workers :
        /\ pending[w].pc \in {"run", "insert"}
        /\ pending[w].op = "register"
        /\ pending[w].method = "POST"})

ReceiveConcurrent(w, r) ==
    /\ pending[w].pc = "idle"
    /\ (r.op = "register" /\ r.method = "POST")
          => Len(users) + RegistersInFlight < Len(SeedUsers) + MaxUsers
    /\ pending' = [pending EXCEPT ![w] =
                      [pc |-> "run", op |-> r.op, method |-> r.method, id |-> r.id,
                       form |-> r.form, client |-> r.client,
                       sess |-> session[r.client], resp |-> NoResponse]]
    /\ UNCHANGED <<users, expenses, session, clock, made, born>>

\* register up to and including users.find_one
register_find(w) ==
    LET r == pending[w]
    IN  /\ Running(w, "register")
        /\ IF r.method # "POST"
           THEN Reply(w, Response("register.html", "", NoRows))
           ELSE IF ~({"username", "password"} \subseteq DOMAIN r.form)
           THEN ServerError(w)
           ELSE IF username_taken(r.form)
           THEN Reply(w, Response("redirect:register", "Username already exists", NoRows))
           ELSE pending' = [pending EXCEPT ![w].pc = "insert"]
        /\ UNCHANGED <<users, expenses, session, clock, made, born>>

\* register from generate_password_hash on: users.insert_one and the redirect
register_insert(w) ==
    LET r == pending[w]
    IN  /\ r.pc = "insert"
        /\ \E salt \in Salts :
              users' = Append(users,
                          register_doc(Strip(r.form["username"]),
                              PasswordHash(salt, Strip(r.form["password"]))))
        /\ Reply(w, Response("redirect:login", "Account created! Please log in.", NoRows))
        /\ UNCHANGED <<expenses, session, clock, made, born>>

RegisterRequests ==
    {Request("register", "GET", NoId, NoForm, "c1")}
    \cup {Request("register", "POST", NoId, form, "c1") : form \in RegisterForms}

NextRegister ==
    \E w \in Workers :
        \/ \E r \in RegisterRequests : ReceiveConcurrent(w, r)
        \/ register_find(w)
        \/ register_insert(w)
        \/ Return(w)

SpecRegister == InitAuth /\ [][NextRegister]_vars

(***************************************************************************)
(* src/app.py: two callers, a registered user and the admin, who add       *)
(* expenses from well-formed forms and look at their dashboards.           *)
(***************************************************************************)
LeapDate == <<"2", "0", "2", "4", "-", "0", "2", "-", "2", "9">>

\* well-formed forms of add: one field varies at a time
DashboardAddForms ==
    {MkForm([BaseForm EXCEPT !.category = << c >>]) :
        c \in {<<"F">>, <<" ", "F", " ">>, <<"G">>}}
    \cup {MkForm([BaseForm EXCEPT !.amount = << a >>]) :
        a \in {<<"5", " ">>, <<"2", ".", "5">>}}
    \cup {MkForm([BaseForm EXCEPT !.date = << d >>]) :
        d \in {<<" ">> \o GoodDate, LeapDate}}

DashboardLogins ==
    {Cred(<< <<"a">> >>, << <<"p">> >>),
     Cred(<< <<"r", "o", "o", "t">> >>, << <<"r">> >>)}

DashboardRequests(c) ==
    {Request("register", "POST", NoId, Cred(<< <<"a">> >>, << <<"p">> >>), c),
     Request("index", "GET", NoId, NoForm, c)}
    \cup {Request("login", "POST", NoId, form, c) : form \in DashboardLogins}
    \cup {Request("add", "POST", NoId, form, c) : form \in DashboardAddForms}

NextDashboard ==
    \/ \E c \in Clients : \E r \in DashboardRequests(c) : ReceiveAuth("w1", r)
    \/ register("w1")
    \/ login("w1")
    \/ index("w1")
    \/ add("w1")
    \/ Return("w1")

SpecDashboard == InitAuth /\ [][NextDashboard]_vars

\* the request worker w1 is handling, or has just answered
req == pending["w1"]

Sent == req.pc = "sent"

(***************************************************************************)
(* Claims about src/Mini-Project.py, checked under SpecPlain.              *)
(***************************************************************************)
\* a decimal numeral: optional sign, digits, at most one decimal point
IsDecimal(raw) ==
    LET t == Strip(raw)
        body == IF Len(t) > 0 /\ t[1] \in {"+", "-"} THEN Tail(t) ELSE t
        nodot == SelectSeq(body, LAMBDA c : c # ".")
    IN  /\ Len(nodot) > 0
        /\ AllDigits(nodot)
        /\ Len(body) - Len(nodot) <= 1

\* the request being handled is a POST of add or edit whose amount field holds
\* something that is no number; edit is on a record that exists
MalformedAmountPosted ==
    /\ req.pc = "run"
    /\ req.method = "POST"
    /\ "amount" \in DOMAIN req.form
    /\ ~IsDecimal(req.form["amount"])
    /\ \/ req.op = "add"
       \/ req.op = "edit" /\ FindIndex(expenses, [_id |-> req.id]) # 0

\* C6: for every non-numeric amountRaw, add and edit (POST) answer
\* "Amount must be a number" and leave the expenses collection as it was.
C6_MalformedAmountRejected ==
    [][MalformedAmountPosted =>
          (req'.resp.flash = "Amount must be a number" /\ expenses' = expenses)]_vars

\* C8: no stored expense has the empty string as its category.
C8_CategoryNeverEmpty ==
    \A i \in 1..Len(expenses) : expenses[i]["category"] # <<>>

\* C9: a delete that names an id with no record in the collection does not
\* report success, and a delete that names a record removes that record alone.
C9_DeleteMissingFails ==
    [][(req.pc = "run" /\ req.op = "delete") =>
          /\ FindIndex(expenses, [_id |-> req.id]) = 0
                => req'.resp.flash # "Expense deleted"
          /\ FindIndex(expenses, [_id |-> req.id]) # 0
                => /\ Len(expenses') = Len(expenses) - 1
                   /\ FindIndex(expenses', [_id |-> req.id]) = 0
      ]_vars

\* date fields that are absent or hold no calendar date, however trimmed
MalformedDateFields == {<<>>, << <<"x">> >>, << BadDayDate >>}

DateField(form) == IF "date" \in DOMAIN form THEN <<form["date"]>> ELSE <<>>

\* C10: with a malformed or absent date, add stores the current UTC date and
\* edit keeps the date the record held before the update.
C10_DateFallbackAsymmetry ==
    [][(req.pc = "run" /\ req.method = "POST"
                       /\ DateField(req.form) \in MalformedDateFields) =>
          /\ (req.op = "add" /\ made' = made + 1)
                => DatePart(expenses'[Len(expenses')]["date"]) = DatePart(UtcNow(clock))
          /\ (req.op = "edit" /\ req'.resp.flash = "Expense updated")
                => LET i == FindIndex(expenses, [_id |-> req.id])
                   IN  expenses'[i]["date"] = expenses[i]["date"]
      ]_vars

\* an edit with a malformed or absent date went through on a record whose date is
\* not today's
C10_Witness ==
    /\ Sent
    /\ req.op = "edit"
    /\ req.method = "POST"
    /\ DateField(req.form) \in MalformedDateFields
    /\ req.resp.flash = "Expense updated"
    /\ LET i == FindIndex(expenses, [_id |-> req.id])
       IN  DatePart(expenses[i]["date"]) # DatePart(UtcNow(clock))

(***************************************************************************)
(* Claims about src/app.py, checked under SpecAuth (one request at a time) *)
(* and SpecRegister (interleaved register requests).                       *)
(***************************************************************************)
LoggedIn(r) == "user_id" \in DOMAIN r.sess

Role(r) == Get(r.sess, "role", "")

\* the request being handled comes from a logged-in non-admin caller and names,
\* for edit or delete, an expense that another user owns
ForeignTarget ==
    /\ req.pc = "run"
    /\ req.op \in {"edit", "delete"}
    /\ LoggedIn(req)
    /\ Role(req) # "admin"
    /\ \E i \in 1..Len(expenses) :
          expenses[i]["_id"] = req.id /\ expenses[i]["user_id"] # req.sess["user_id"]

\* C1: edit (GET or POST) or delete by a logged-in non-admin caller on another
\* user's expense is answered "Expense not found" and changes no expense.
C1_ForeignExpenseNotFound ==
    [][ForeignTarget =>
          (req'.resp.flash = "Expense not found" /\ expenses' = expenses)]_vars

\* what does hold for C1's case: the expenses collection is left as it was, and
\* edit answers "Expense not found"
ForeignExpenseUntouched ==
    [][ForeignTarget =>
          /\ expenses' = expenses
          /\ req.op = "edit" => req'.resp.flash = "Expense not found"]_vars

UsernamesUnique ==
    \A i, j \in 1..Len(users) : users[i]["username"] = users[j]["username"] => i = j

\* C2: no two user records have the same username, whatever the interleaving
\* of register requests.
C2_UsernameUniqueUnderRace == UsernamesUnique

\* a register POST whose trimmed username is that of an existing user
DuplicateRegister(r) ==
    /\ r.op = "register"
    /\ r.method = "POST"
    /\ {"username", "password"} \subseteq DOMAIN r.form
    /\ \E i \in 1..Len(users) : users[i]["username"] = Strip(r.form["username"])

\* C3: with one request at a time, register with a username that exists answers
\* "Username already exists" and leaves users as it was, so that no username
\* is ever held by two user records.
C3_DuplicateRegisterRejected ==
    /\ []UsernamesUnique
    /\ [][(req.pc = "run" /\ DuplicateRegister(req)) =>
             (req'.resp.flash = "Username already exists" /\ users' = users)]_vars

\* the name a registered user holds was submitted again and turned down
C3_Witness ==
    /\ Sent
    /\ DuplicateRegister(req)
    /\ req.resp.flash = "Username already exists"
    /\ \E i \in (Len(SeedUsers) + 1)..Len(users) :
          users[i]["username"] = Strip(req.form["username"])

GuardedOps ==
    {"index", "add", "edit", "delete", "admin_expenses", "admin_users", "admin_export"}

Denied(resp) ==
    /\ resp.flash \in {"Login required", "Admin access only"}
    /\ resp.page \in {"redirect:login", "redirect:index"}
    /\ resp.rows = NoRows

\* C4: a request that carries no session identity to any route other than
\* login and register is denied and changes neither collection; the session
\* is empty at the start and again after logout, until a login succeeds.
C4_NoSessionDenied ==
    /\ [][(req.pc = "run" /\ req.op \in GuardedOps /\ ~LoggedIn(req)) =>
             (Denied(req'.resp) /\ users' = users /\ expenses' = expenses)]_vars
    /\ [][(req.pc = "run" /\ req.op = "logout") =>
             session'[req.client] = NoSession]_vars
    /\ \A c \in Clients : session[c] = NoSession
    /\ [][\A c \in Clients :
             (session[c] = NoSession /\ session'[c] # NoSession) =>
                 (req.op = "login" /\ req'.resp.flash = "Logged in successfully")]_vars

\* after a logout, a delete that names an existing expense was turned away
C4_Witness ==
    /\ Sent
    /\ req.op = "delete"
    /\ ~LoggedIn(req)
    /\ req.resp.flash = "Login required"
    /\ FindIndex(expenses, [_id |-> req.id]) # 0

AdminOps == {"admin_expenses", "admin_users", "admin_export"}

\* C5: the all-expenses listing, the all-users listing and the export are
\* given to a caller whose session role is admin and to no other caller, who
\* is answered "Admin access only".
C5_AdminOnly ==
    (Sent /\ req.op \in AdminOps) =>
        IF Role(req) = "admin"
        THEN /\ req.resp.flash # "Admin access only"
             /\ req.op = "admin_expenses" => req.resp.rows = expenses
             /\ req.op = "admin_users" => req.resp.rows = users
             /\ (req.op = "admin_export" /\ req.id \in {<<"u", "s", "e", "r", "s">>,
                                                         <<"e", "x", "p", "e", "n", "s", "e", "s">>})
                   => req.resp.page \in {"users.xlsx", "expenses.xlsx"}
        ELSE /\ req.resp.flash = "Admin access only"
             /\ req.resp.page = "redirect:index"
             /\ req.resp.rows = NoRows

\* a logged-in user whose role is user asked for all expenses, of which there are some
C5_Witness ==
    /\ Sent
    /\ req.op = "admin_expenses"
    /\ Role(req) = "user"
    /\ req.resp.flash = "Admin access only"
    /\ Len(expenses) > 0

\* C7: every expense's user_id is the id of the caller who created it, in
\* every reachable state.
C7_OwnerImmutable ==
    \A i \in 1..Len(expenses) :
        \E n \in 1..made :
            /\ expenses[i]["_id"] = OidStr("e", n)
            /\ expenses[i]["user_id"] = born[n]

\* an update has just gone through on an expense, while an expense of another
\* owner exists
C7_Witness ==
    /\ Sent
    /\ req.op = "edit"
    /\ req.resp.flash = "Expense updated"
    /\ \E i, j \in 1..Len(expenses) :
          /\ expenses[i]["_id"] = req.id
          /\ expenses[i]["category"] = <<"G">>
          /\ expenses[j]["user_id"] # expenses[i]["user_id"]

(***************************************************************************)
(* Claims about the dashboard of src/app.py, checked under SpecAuth.       *)
(***************************************************************************)
\* the expenses of a collection that uid owns, in their order
OwnedBy(coll, uid) == SelectSeq(coll, LAMBDA e : e["user_id"] = uid)

\* the total of each category of the documents, as a set of pairs
CategorySums(docs) ==
    {<<docs[i]["category"],
       sum(Pluck(SelectSeq(docs, LAMBDA e : e["category"] = docs[i]["category"]),
                 "amount", FloatOfInt(0)))>> : i \in 1..Len(docs)}

\* the response is a dashboard whose records, total and category totals are
\* those of the documents docs and of no other
DashboardOf(resp, docs) ==
    /\ resp.page = "index.html"
    /\ Len(resp.rows) = Len(docs)
    /\ Range(resp.rows) = Range(docs)
    /\ resp.total = sum(Pluck(docs, "amount", FloatOfInt(0)))
    /\ Len(resp.categories) = Len(resp.totals)
    /\ Len(resp.categories) = Cardinality(CategorySums(docs))
    /\ {<<resp.categories[i], resp.totals[i]>> : i \in 1..Len(resp.categories)}
          = CategorySums(docs)

UserIds == {users[i]["_id"] : i \in 1..Len(users)}

\* C11: the records, total and category totals that a logged-in caller's
\* dashboard shows are those of the expenses the caller owns and of no
\* other, and an add, edit or delete changes the owned expenses of no user
\* but its caller.
C11_DashboardOwnScope ==
    /\ []((Sent /\ req.op = "index" /\ LoggedIn(req)) =>
             DashboardOf(req.resp, OwnedBy(expenses, req.sess["user_id"])))
    /\ [][(req.pc = "run" /\ req.op \in {"add", "edit", "delete"} /\ LoggedIn(req)) =>
             \A u \in UserIds \ {req.sess["user_id"]} :
                 OwnedBy(expenses', u) = OwnedBy(expenses, u)]_vars

\* a caller who owns an expense was shown the dashboard while another user
\* owned an expense too
C11_Witness ==
    /\ Sent
    /\ req.op = "index"
    /\ LoggedIn(req)
    /\ Len(req.resp.rows) > 0
    /\ \E i \in 1..Len(expenses) : expenses[i]["user_id"] # req.sess["user_id"]

(***************************************************************************)
(* Claims about creating and listing, checked under SpecDashboard.         *)
(***************************************************************************)
\* the form carries a category that is not blank, a decimal amount and a
\* calendar date
ValidTriple(form) ==
    /\ {"category", "amount", "date"} \subseteq DOMAIN form
    /\ Strip(form["category"]) # <<>>
    /\ IsDecimal(form["amount"])
    /\ ParseDate(Strip(form["date"])).ok

\* the document holds the normalised fields of the form and uid as its owner
NormalisedRecord(doc, form, uid) ==
    /\ doc["category"] = Strip(form["category"])
    /\ doc["amount"] = ParseFloat(form["amount"]).v
    /\ doc["date"] = ParseDate(Strip(form["date"])).v
    /\ doc["user_id"] = uid

\* C12: add with a valid (category, amount, date) by a caller who owns no
\* expense leaves the caller with exactly one expense, which holds the
\* normalised fields and the caller's id; the dashboard of a caller who owns
\* one expense lists that expense alone, with its amount as the total and
\* the pair of its category and amount as the only category total.
C12_CreateThenList ==
    /\ [][(req.pc = "run" /\ req.op = "add" /\ req.method = "POST" /\ LoggedIn(req)
              /\ ValidTriple(req.form)
              /\ OwnedBy(expenses, req.sess["user_id"]) = <<>>) =>
             LET own == OwnedBy(expenses', req.sess["user_id"])
             IN  /\ Len(own) = 1
                 /\ NormalisedRecord(own[1], req.form, req.sess["user_id"])
                 /\ req'.resp.flash = "Expense added"]_vars
    /\ []((Sent /\ req.op = "index" /\ LoggedIn(req)
              /\ Len(OwnedBy(expenses, req.sess["user_id"])) = 1) =>
             LET own == OwnedBy(expenses, req.sess["user_id"])
             IN  /\ req.resp.rows = own
                 /\ req.resp.total = own[1]["amount"]
                 /\ req.resp.categories = <<own[1]["category"]>>
                 /\ req.resp.totals = <<own[1]["amount"]>>)

\* a caller who owns one expense, of category F and amount 5, was shown the
\* dashboard while another user owned an expense
C12_Witness ==
    /\ Sent
    /\ req.op = "index"
    /\ LoggedIn(req)
    /\ req.resp.categories = << <<"F">> >>
    /\ req.resp.totals = << FloatOfInt(5) >>
    /\ Len(req.resp.rows) = 1
    /\ Len(expenses) = 2

(***************************************************************************)
(* Claims about the category totals of src/Mini-Project.py, checked under  *)
(* SpecPlain.                                                              *)
(***************************************************************************)
\* the response is the dashboard
ShowsDashboard == Sent /\ req.op = "index" /\ req.resp.page = "index.html"

\* C13: as long as nothing is written, every call for the category totals
\* returns the same result; the values of the category totals of a dashboard
\* add up to its total, and with no expense the total is 0 and there is no
\* category total.
C13_AggregationConsistent ==
    /\ \A first, second \in aggregate(expenses) : first = second
    /\ ShowsDashboard =>
          /\ FloatEq(sum(req.resp.totals), req.resp.total)
          /\ expenses = <<>> =>
                (req.resp.total = FloatOfInt(0) /\ req.resp.totals = <<>>)

\* the characters of category labels, in the order of their code points
LabelChars ==
    <<" ", "F", "G", "U", "a", "c", "d", "e", "g", "i", "o", "r", "t", "z">>

\* label a comes before label b
RECURSIVE LabelLess(_, _)
LabelLess(a, b) ==
    IF Len(b) = 0 THEN FALSE
    ELSE IF Len(a) = 0 THEN TRUE
    ELSE IF Head(a) # Head(b)
         THEN IndexOf(LabelChars, Head(a)) < IndexOf(LabelChars, Head(b))
         ELSE LabelLess(Tail(a), Tail(b))

\* C14: the category totals of a dashboard come largest total first, and
\* categories of equal total come in ascending order of their labels.
C14_TotalsOrderDeterministic ==
    ShowsDashboard =>
        \A i, j \in 1..Len(req.resp.totals) :
            i < j =>
                /\ ~SortLess(req.resp.totals[i], req.resp.totals[j])
                /\ req.resp.totals[i] = req.resp.totals[j]
                      => LabelLess(req.resp.categories[i], req.resp.categories[j])

(***************************************************************************)
(* Claims about roles and login of src/app.py, checked under SpecAuth.     *)
(***************************************************************************)
SeedIds == {SeedUsers[i]["_id"] : i \in 1..Len(SeedUsers)}

\* C15: every user that register has created has the role user; no step
\* changes the role of a user or removes a user; a session whose role is
\* admin is never that of a user created by register.
C15_NoPrivilegeEscalation ==
    /\ [](\A i \in (Len(SeedUsers) + 1)..Len(users) : users[i]["role"] = "user")
    /\ [][/\ Len(users') >= Len(users)
          /\ \A i \in 1..Len(users) :
                /\ users'[i]["_id"] = users[i]["_id"]
                /\ users'[i]["role"] = users[i]["role"]]_vars
    /\ [](\A c \in Clients :
             Get(session[c], "role", "") = "admin" => session[c]["user_id"] \in SeedIds)

\* a user created by register has just logged in and holds a session of role user
C15_Witness ==
    /\ Sent
    /\ req.op = "login"
    /\ req.resp.flash = "Logged in successfully"
    /\ session[req.client]["role"] = "user"
    /\ session[req.client]["user_id"] \notin SeedIds

\* the users whose name and password are those of the form, both trimmed
Verified(form) ==
    {i \in 1..Len(users) :
        /\ users[i]["username"] = Strip(form["username"])
        /\ CheckPasswordHash(users[i]["password"], Strip(form["password"]))}

\* C16: a login POST whose username is that of a user and whose password
\* matches that user's hash puts the id, name and role of that user into
\* the session; any other login POST leaves the session as it was and is
\* answered "Invalid username or password" on the login page, whichever of
\* the two was wrong. Neither changes users or expenses.
C16_LoginIffVerified ==
    [][(req.pc = "run" /\ req.op = "login" /\ req.method = "POST"
           /\ {"username", "password"} \subseteq DOMAIN req.form) =>
          /\ users' = users
          /\ expenses' = expenses
          /\ IF Verified(req.form) # {}
             THEN /\ \E i \in Verified(req.form) :
                        session'[req.client] =
                            [user_id |-> users[i]["_id"],
                             username |-> users[i]["username"],
                             role |-> users[i]["role"]]
                  /\ req'.resp.flash = "Logged in successfully"
             ELSE /\ session' = session
                  /\ req'.resp = Response("login.html", "Invalid username or password", NoRows)
      ]_vars

\* a logged-in client was refused for a wrong password of an existing user
C16_Witness ==
    /\ Sent
    /\ req.op = "login"
    /\ req.resp.flash = "Invalid username or password"
    /\ FindIndex(users, [username |-> Strip(req.form["username"])]) # 0
    /\ session[req.client] # NoSession

Owners(coll) == {coll[i]["user_id"] : i \in 1..Len(coll)}

\* the request names an expense that a user other than its caller owns
NamesForeignExpense(r) ==
    \E i \in 1..Len(expenses) :
        expenses[i]["_id"] = r.id /\ expenses[i]["user_id"] # r.sess["user_id"]

\* C17: an add, edit or delete by a caller of role admin leaves the expenses
\* of every other owner as they were and creates none for another owner; an
\* edit or delete of an admin that names another user's expense leaves the
\* expenses collection as it was.
C17_AdminWritesOwnOnly ==
    [][(req.pc = "run" /\ req.op \in {"add", "edit", "delete"} /\ Role(req) = "admin") =>
          /\ \A u \in (Owners(expenses) \cup Owners(expenses')) \ {req.sess["user_id"]} :
                OwnedBy(expenses', u) = OwnedBy(expenses, u)
          /\ (req.op \in {"edit", "delete"} /\ NamesForeignExpense(req))
                => expenses' = expenses
      ]_vars

\* the admin's delete of a user's expense has been handled and the expense is there
C17_Witness ==
    /\ Sent
    /\ req.op = "delete"
    /\ Role(req) = "admin"
    /\ NamesForeignExpense(req)

(***************************************************************************)
(* Claims about interleaved requests of src/Mini-Project.py, checked under *)
(* SpecRace.                                                               *)
(***************************************************************************)
\* worker w is about to write, with update_one, a record that is there
Updating(w) ==
    /\ pending[w].pc = "update"
    /\ pending'[w].pc = "sent"
    /\ pending'[w].resp.flash = "Expense updated"
    /\ FindIndex(expenses, [_id |-> pending[w].id]) # 0

\* the fields that the form leaves to the record: category and amount when it
\* does not carry them, date when it carries none that is a date
KeptFields(form) ==
    {k \in {"category", "amount"} : k \notin DOMAIN form}
    \cup {k \in {"date"} : ~ParseDate(Get(form, "date", <<>>)).ok}

\* C18: the update of an edit leaves every field that its form leaves to the
\* record at the value the record held immediately before that update.
C18_UnsuppliedFieldsKeepLatest ==
    [][\A w \in Workers :
          Updating(w) =>
              LET i == FindIndex(expenses, [_id |-> pending[w].id])
              IN  \A k \in KeptFields(pending[w].form) :
                      expenses'[i][k] = expenses[i][k]]_vars

\* what does hold for the case of C18: the update of an edit sets every field
\* that its form leaves to the record to the value that the find_one of the
\* same request read, whatever has been written to the record since
UnsuppliedFieldsKeepRead ==
    [][\A w \in Workers :
          Updating(w) =>
              LET i == FindIndex(expenses, [_id |-> pending[w].id])
              IN  \A k \in KeptFields(pending[w].form) :
                      expenses'[i][k] = pending[w].read[k]]_vars

\* an expense with the n-th id that insert_one handed out is in the collection
Present(coll, n) == FindIndex(coll, [_id |-> OidStr("e", n)]) # 0

\* C19: an expense that has been added and is no longer in the collection is
\* in the collection after no step, whichever request takes the step.
C19_DeletePermanent ==
    [][\A n \in 1..made : ~Present(expenses, n) => ~Present(expenses', n)]_vars

\* a delete has removed the expense that an edit had read and is yet to update
C19_Witness ==
    \E w, v \in Workers :
        /\ pending[w].pc = "update"
        /\ pending[v].pc = "sent"
        /\ pending[v].op = "delete"
        /\ pending[v].id = pending[w].id
        /\ pending[w].read["_id"] = pending[w].id
        /\ FindIndex(expenses, [_id |-> pending[w].id]) = 0

\* C20: in every dashboard response, whatever was written while the request
\* was handled, the total is the sum of the values of the category totals.
C20_DashboardConsistentUnderWrites ==
    \A w \in Workers :
        (pending[w].pc = "sent" /\ pending[w].op = "index") =>
            FloatEq(sum(pending[w].resp.totals), pending[w].resp.total)

\* what does hold for the case of C20: the total and the category totals
\* agree when aggregate reads the expenses that find has read
ConsistentWithoutWrites ==
    [][\A w \in Workers :
          (pending[w].pc = "aggregate" /\ pending'[w].pc = "sent"
              /\ Range(pending[w].read) = Range(expenses)) =>
                 FloatEq(sum(pending'[w].resp.totals), pending'[w].resp.total)]_vars

====
